---- MODULE Spec2Model ----
(***************************************************************************)
(* A model of nostrstats' client (src/client.py):                          *)
(*   - Client.get_notes, the quorum polling loop over the relay pool;      *)
(*   - the latest-event-per-author resolution of get_relays and            *)
(*     get_follower_and_their_relays;                                      *)
(*   - Client.get_relay_statistics, the per-relay follower counts and the  *)
(*     greedy minimum relay cover.                                         *)
(* The relay library (pynostr) is the environment: relays put EVENT and    *)
(* EOSE messages into the shared message pool while run_sync is running.   *)
(***************************************************************************)
EXTENDS Integers, Sequences, FiniteSets, TLC

\* ------------------------------------------------------------------ bounds

\* Largest relay pool a query is run against.
MaxRelays == 3
\* Number of distinct event ids the relays may deliver.
MaxIds == 2
\* Most event messages buffered in the message pool during one round.
MaxPool == 2
\* Most rounds of the polling loop that are explored.
MaxRounds == 2
\* Most events in the mapping handed to the latest-event resolution.
MaxEvents == 3
\* Number of distinct authors (public keys) of those events.
MaxAuthors == 2
\* Most EOSE messages of earlier subscriptions put into the pool in a round.
MaxLate == 1
\* Most clicks on the Run button that are explored.
MaxClicks == 2
\* Most relay urls in the "relays" list of the configuration.
MaxConfig == 2
\* Most events a query of run returns.
MaxFetched == 1
\* Most followers (public keys) in the input of get_relay_statistics.
MaxPubs == 3
\* Number of distinct relay hosts in that input.
MaxHosts == 3

VARIABLES
    \* ---- Client.get_notes
    pc,              \* position of get_notes: start, loop, wait, done
    relays,          \* relay_manager.relays (the urls tracked by the pool)
    relay_count,     \* local relay_count
    eose_count,      \* local eose_count
    events,          \* local events: event id -> event
    subscription_id, \* local subscription_id (0: none yet)
    pool_events,     \* message_pool.events, a queue of event messages
    pool_eose,       \* message_pool.eose_notices: the number of EOSE messages queued
    open_subs,       \* subscription ids registered on the relays
    conn_open,       \* whether the relay connections are open
    result,          \* the value get_notes returned
    rounds,          \* history: rounds started
    delivered,       \* history: event messages put into the pool in this round
    emitted,         \* history: EOSE messages put into the pool in this round
    earlier,         \* history: event ids drained in the rounds before this one
    hist,            \* history: EOSE emitted in each completed round
    drained,         \* history: the event messages of this round, in the order drained
    tokens,          \* history: the subscription ids of the rounds so far
    \* ---- the latest-event resolution of get_follower_and_their_relays
    rs_pc,           \* position: loop, output, done, raised
    rs_events,       \* events.items() in iteration order
    rs_i,            \* index of the next item of the first loop
    following,       \* local following
    relays_per_user, \* local relays_per_user: pubkey -> event
    rs_output,       \* local output: pubkey -> relay urls
    \* ---- Client.get_relay_statistics
    cv_pc,           \* position: start, loop, done, raised
    relays_by_pub,   \* f_relays_by_pub: pubkey -> relay urls
    necessary_relays, \* self.necessary_relays
    df,              \* df: index (sorted), columns, cells with 1, Count
    new_df,          \* new_df: first row of the sorted index, rows, columns, Count
    minimum_necessary_relays, \* the keys of the dict, in insertion order
    cv_output,       \* the rows of the minimum necessary relays table
    added,           \* history: the followers newly covered by each selection
    \* ---- Client.run
    run_pc,          \* position of run: idle, start, own, swap, notif, followers,
                     \* export, done, failed
    config,          \* what load_config returned: its "relays" list, or "nokey"
    npub_ok,         \* whether self.npub is a valid npub (or hex) key
    activity_on_npub, \* self.activity_on_npub
    relays_of_followers, \* self.relays_of_followers
    current_relays,  \* local current_relays of run
    log,             \* the messages emitted on log_messages, in order
    exported,        \* whether export_html has written the report
    finished,        \* whether finished(True) has been emitted
    error,           \* the stage whose exception reached the except clause
    relay_added,     \* history: for each relay of the pool, the add_relays call
                     \* that added it
    add_calls,       \* history: the number of add_relays calls
    sent,            \* history: the queries issued, with the relays they went to
    \* ---- messages of earlier subscriptions
    late,            \* history: the event messages of earlier subscriptions put
                     \* into the pool in this round, with their subscription id
    late_eose,       \* history: the EOSE messages of earlier subscriptions put
                     \* into the pool in this round
    \* ---- Gui
    gui_enabled,     \* whether the Run button and the inputs are enabled
    handled,         \* whether the slot connected to finished has been run
    live,            \* history: the Client threads running when click_run last
                     \* started one, that one included
    clicks           \* history: the number of click_run calls

queryVars == <<pc, relays, relay_count, eose_count, events, subscription_id,
               pool_events, pool_eose, open_subs, conn_open, result, rounds,
               delivered, emitted, earlier, hist, drained, tokens>>

resolveVars == <<rs_pc, rs_events, rs_i, following, relays_per_user, rs_output>>

coverVars == <<cv_pc, relays_by_pub, necessary_relays, df, new_df,
               minimum_necessary_relays, cv_output, added>>

runVars == <<run_pc, config, npub_ok, activity_on_npub, relays_of_followers,
             current_relays, log, exported, finished, error, relay_added,
             add_calls, sent>>

lateVars == <<late, late_eose>>

guiVars == <<gui_enabled, handled, live, clicks>>

vars == <<queryVars, resolveVars, coverVars, runVars, lateVars, guiVars>>

\* ----------------------------------------------------------------- helpers

Ids == 1 .. MaxIds

\* The range of a sequence.
Range(seq) == {seq[k] : k \in 1 .. Len(seq)}

\* The empty dict.
EmptyMap == [i \in {} |-> 0]

\* The assignment that keeps the event stored first under an id.
PutIfAbsent(map, ev) ==
    [i \in (DOMAIN map) \cup {ev.id} |-> IF i \in DOMAIN map THEN map[i] ELSE ev]

\* events[event_msg.event.id] = event_msg.event
Put(map, ev) == [i \in (DOMAIN map) \cup {ev.id} |-> IF i = ev.id THEN ev ELSE map[i]]

\* Drain with a loop that stops one message early.
RECURSIVE DrainShort(_, _)
DrainShort(queue, map) ==
    IF Len(queue) <= 1 THEN map
    ELSE DrainShort(Tail(queue), Put(map, Head(queue)))

\* The drain loop: while has_events(): get_event(); events[id] = event
RECURSIVE Drain(_, _)
Drain(queue, map) ==
    IF queue = <<>> THEN map
    ELSE Drain(Tail(queue), Put(map, Head(queue)))

\* The loop test with <= for <.
LoopCondLe(eose, count) == 2 * eose <= count

\* The loop test with the relay count taken one too small.
LoopCondOff(eose, count) == 2 * eose < count - 1

\* The loop test of get_notes: eose_count < relay_count * 0.5
LoopCond(eose, count) == 2 * eose < count

\* --------------------------------------------------------- Client.get_notes

\* The client before get_notes is called on a pool of the given relays.
QueryAt(pool) ==
    /\ pc = "start"
    /\ relays = pool
    /\ relay_count = 0
    /\ eose_count = 0
    /\ events = EmptyMap
    /\ subscription_id = 0
    /\ pool_events = <<>>
    /\ pool_eose = 0
    /\ open_subs = {}
    /\ conn_open = FALSE
    /\ result = EmptyMap
    /\ rounds = 0
    /\ delivered = {}
    /\ emitted = 0
    /\ earlier = {}
    /\ hist = <<>>
    /\ drained = <<>>
    /\ tokens = <<>>
    /\ late = {}
    /\ late_eose = 0

\* No resolution in progress.
ResolveIdle ==
    /\ rs_pc = "done"
    /\ rs_events = <<>>
    /\ rs_i = 1
    /\ following = {}
    /\ relays_per_user = EmptyMap
    /\ rs_output = EmptyMap

\* An empty data frame.
EmptyFrame == [index |-> <<>>, columns |-> {}, cells |-> {}, Count |-> EmptyMap]

\* An empty data frame, as new_df is kept.
EmptyNewFrame == [top |-> <<>>, rows |-> {}, columns |-> {}, cells |-> {},
                  Count |-> EmptyMap]

\* No statistics in progress.
CoverIdle ==
    /\ cv_pc = "done"
    /\ relays_by_pub = <<>>
    /\ necessary_relays = FALSE
    /\ df = EmptyFrame
    /\ new_df = EmptyNewFrame
    /\ minimum_necessary_relays = <<>>
    /\ cv_output = <<>>
    /\ added = <<>>

\* No window is shown.
NoGui ==
    /\ gui_enabled = FALSE
    /\ handled = FALSE
    /\ live = 0
    /\ clicks = 0

\* run has not been started.
RunIdle ==
    /\ run_pc = "idle"
    /\ config = <<>>
    /\ npub_ok = TRUE
    /\ activity_on_npub = FALSE
    /\ relays_of_followers = FALSE
    /\ current_relays = <<>>
    /\ log = <<>>
    /\ exported = FALSE
    /\ finished = FALSE
    /\ error = "none"
    /\ relay_added = EmptyMap
    /\ add_calls = 0
    /\ sent = <<>>
    /\ NoGui

InitQuery ==
    /\ \E n \in 0 .. MaxRelays : QueryAt(1 .. n)
    /\ ResolveIdle
    /\ CoverIdle
    /\ RunIdle

\* Lines 121-128: relay_count, eose_count and events are initialised.
GetNotesEnter ==
    /\ pc = "start"
    /\ pc' = "loop"
    /\ relay_count' = Cardinality(relays)
    /\ eose_count' = 0
    /\ events' = EmptyMap
    /\ UNCHANGED <<relays, subscription_id, pool_events, pool_eose, open_subs,
                   conn_open, result, rounds, delivered, emitted, earlier, hist,
                   drained, tokens>>
    /\ UNCHANGED <<resolveVars, coverVars, runVars, lateVars, guiVars>>

\* StartRound without the reset of the events dict (line 133 missing).
StartRoundNoReset ==
    /\ pc = "loop"
    /\ LoopCond(eose_count, relay_count)
    /\ rounds < MaxRounds
    /\ pc' = "wait"
    /\ subscription_id' = subscription_id + 1
    /\ open_subs' = open_subs \cup {subscription_id'}
    /\ conn_open' = TRUE
    /\ rounds' = rounds + 1
    /\ earlier' = earlier \cup {m.id : m \in delivered}
    /\ delivered' = {}
    /\ emitted' = 0
    /\ drained' = <<>>
    /\ tokens' = Append(tokens, subscription_id')
    /\ late' = {}
    /\ late_eose' = 0
    /\ UNCHANGED <<relays, relay_count, eose_count, events, pool_events,
                   pool_eose, result, hist>>
    /\ UNCHANGED <<resolveVars, coverVars, runVars, guiVars>>

\* Lines 131-139: the loop test holds; the events are reset, a fresh
\* subscription is sent to all relays and run_sync opens the connections.
StartRound ==
    /\ pc = "loop"
    /\ LoopCond(eose_count, relay_count)
    /\ rounds < MaxRounds
    /\ pc' = "wait"
    /\ events' = EmptyMap
    /\ subscription_id' = subscription_id + 1
    /\ open_subs' = open_subs \cup {subscription_id'}
    /\ conn_open' = TRUE
    /\ rounds' = rounds + 1
    /\ earlier' = earlier \cup {m.id : m \in delivered}
    /\ delivered' = {}
    /\ emitted' = 0
    /\ drained' = <<>>
    /\ tokens' = Append(tokens, subscription_id')
    /\ late' = {}
    /\ late_eose' = 0
    /\ UNCHANGED <<relays, relay_count, eose_count, pool_events, pool_eose,
                   result, hist>>
    /\ UNCHANGED <<resolveVars, coverVars, runVars, guiVars>>

\* During run_sync a relay answers with a stored event: the library puts an
\* event message into the pool.  A relay sends an event once per subscription.
RelayEvent(r, i) ==
    /\ pc = "wait"
    /\ r \in relays
    /\ Len(pool_events) < MaxPool
    /\ \A k \in 1 .. Len(pool_events) : pool_events[k] # [id |-> i, src |-> r]
    /\ pool_events' = Append(pool_events, [id |-> i, src |-> r])
    /\ delivered' = delivered \cup {[id |-> i, src |-> r]}
    /\ UNCHANGED <<pc, relays, relay_count, eose_count, events, subscription_id,
                   pool_eose, open_subs, conn_open, result, rounds, emitted,
                   earlier, hist, drained, tokens>>
    /\ UNCHANGED <<resolveVars, coverVars, runVars, lateVars, guiVars>>

\* During run_sync a relay that has not yet done so in this round signals the
\* end of its stored events: the library queues an EOSE message.
RelayEose ==
    /\ pc = "wait"
    /\ emitted < Cardinality(relays)
    /\ pool_eose' = pool_eose + 1
    /\ emitted' = emitted + 1
    /\ UNCHANGED <<pc, relays, relay_count, eose_count, events, subscription_id,
                   pool_events, open_subs, conn_open, result, rounds, delivered,
                   earlier, hist, drained, tokens>>
    /\ UNCHANGED <<resolveVars, coverVars, runVars, lateVars, guiVars>>

\* Collect without lines 155-156: nothing is closed at the end of the round.
CollectNoClose ==
    /\ pc = "wait"
    /\ pc' = "loop"
    /\ eose_count' = pool_eose
    /\ pool_eose' = 0
    /\ events' = Drain(pool_events, events)
    /\ pool_events' = <<>>
    /\ hist' = Append(hist, emitted)
    /\ drained' = pool_events
    /\ UNCHANGED <<relays, relay_count, subscription_id, open_subs, conn_open,
                   result, rounds, delivered, emitted, earlier, tokens>>
    /\ UNCHANGED <<resolveVars, coverVars, runVars, lateVars, guiVars>>

\* Lines 141-156: the EOSE messages are read and counted, the buffered events
\* are drained into the events dict, the subscription and the connections
\* are closed.
Collect ==
    /\ pc = "wait"
    /\ pc' = "loop"
    /\ eose_count' = pool_eose
    /\ pool_eose' = 0
    /\ events' = Drain(pool_events, events)
    /\ pool_events' = <<>>
    /\ open_subs' = open_subs \ {subscription_id}
    /\ conn_open' = FALSE
    /\ hist' = Append(hist, emitted)
    /\ drained' = pool_events
    /\ UNCHANGED <<relays, relay_count, subscription_id, result, rounds,
                   delivered, emitted, earlier, tokens>>
    /\ UNCHANGED <<resolveVars, coverVars, runVars, lateVars, guiVars>>

\* Lines 131 and 158: the loop test fails and the events are returned.
Return ==
    /\ pc = "loop"
    /\ ~LoopCond(eose_count, relay_count)
    /\ pc' = "done"
    /\ result' = events
    /\ UNCHANGED <<relays, relay_count, eose_count, events, subscription_id,
                   pool_events, pool_eose, open_subs, conn_open, rounds,
                   delivered, emitted, earlier, hist, drained, tokens>>
    /\ UNCHANGED <<resolveVars, coverVars, runVars, lateVars, guiVars>>

NextQuery ==
    \/ GetNotesEnter
    \/ StartRound
    \/ \E r \in 1 .. MaxRelays, i \in Ids : RelayEvent(r, i)
    \/ RelayEose
    \/ Collect
    \/ Return

SpecQuery == InitQuery /\ [][NextQuery]_vars

\* ------------------------------------------------- claims about get_notes

\* The number of relays in the pool.
N == Cardinality(relays)

\* The ids of the events delivered in the current (at the end: final) round.
DeliveredIds == {m.id : m \in delivered}

\* C1: with N >= 1 relays get_notes returns right after the first round whose
\* EOSE count is at least N/2: no round is started after such a round, the
\* returning round has at least N/2 EOSE, and when the first round has at
\* least N/2 EOSE exactly one round is executed.
QuorumExit ==
    /\ \A k \in 1 .. Len(hist) - 1 : 2 * hist[k] < N
    /\ (pc = "done" /\ N >= 1) =>
          /\ Len(hist) >= 1
          /\ 2 * hist[Len(hist)] >= N
          /\ rounds = Len(hist)
    /\ (N >= 1 /\ Len(hist) >= 1 /\ 2 * hist[1] >= N) => rounds = 1
    /\ (pc = "loop" /\ Len(hist) >= 1 /\ 2 * hist[Len(hist)] >= N) =>
          ENABLED Return /\ ~ENABLED StartRound

\* A round without EOSE, then a round with exactly half of the relays' EOSE,
\* after which get_notes has returned.
QuorumExitWitness ==
    /\ pc = "done"
    /\ N = 2
    /\ hist = <<0, 1>>

\* C2: the returned mapping has one entry per distinct event id delivered in
\* the final round: its key set is the set of those ids, each key maps to an
\* event with that id.
ResultKeys ==
    pc = "done" =>
        /\ DOMAIN result = DeliveredIds
        /\ \A i \in DOMAIN result : result[i].id = i

\* Two relays delivered the same event: two messages, one entry returned.
ResultKeysWitness ==
    /\ pc = "done"
    /\ Cardinality(delivered) = 2
    /\ \E a \in delivered, b \in delivered : a.id = b.id /\ a.src # b.src
    /\ Cardinality(DOMAIN result) = 1

\* C3: an event drained in an earlier round and not delivered again in the
\* final round is not in the returned mapping.
NoStaleEvents ==
    pc = "done" => \A i \in earlier \ DeliveredIds : i \notin DOMAIN result

\* An earlier round drained an event the final round did not deliver.
NoStaleEventsWitness ==
    /\ pc = "done"
    /\ rounds = 2
    /\ earlier \ DeliveredIds # {}
    /\ DeliveredIds # {}

\* C4 (as amended): with no relays get_notes returns the empty mapping
\* without executing the loop body at all: no round is started, and the
\* return is the only step left.
ZeroRelaysReturnsEmpty ==
    N = 0 =>
        /\ rounds = 0
        /\ pc \in {"start", "loop", "done"}
        /\ pc = "start" => ENABLED GetNotesEnter
        /\ pc = "loop" => ENABLED Return /\ ~ENABLED StartRound
        /\ pc = "done" => result = EmptyMap

\* get_notes has returned for an empty pool.
ZeroRelaysWitness == N = 0 /\ pc = "done"

\* C4 as stated: with no relays the loop exits after one (empty) iteration.
ZeroRelaysOneIteration ==
    (N = 0 /\ pc = "done") => (rounds = 1 /\ result = EmptyMap)

\* C5: with N >= 1 relays, as long as no completed round had N/2 EOSE,
\* get_notes has not returned: at the loop test the return is not possible
\* and the next round is started (up to the rounds explored).
NoQuorumNoReturn ==
    (N >= 1 /\ \A k \in 1 .. Len(hist) : 2 * hist[k] < N) =>
        /\ pc \in {"start", "loop", "wait"}
        /\ pc = "loop" => ~ENABLED Return
        /\ (pc = "loop" /\ rounds < MaxRounds) => ENABLED StartRound

\* Every explored round ended below the quorum and get_notes is still at
\* its loop test.
NoQuorumWitness ==
    /\ N = 3
    /\ pc = "loop"
    /\ rounds = MaxRounds
    /\ Len(hist) = MaxRounds
    /\ \A k \in 1 .. Len(hist) : hist[k] = 1

\* The positions, in the order drained, of the messages with event id i.
DrainedAt(i) == {k \in 1 .. Len(drained) : drained[k].id = i}

\* The first and the last of a non-empty set of positions.
FirstOf(ks) == CHOOSE k \in ks : \A j \in ks : k <= j
LastOf(ks) == CHOOSE k \in ks : \A j \in ks : j <= k

\* C14 as stated: when an event id is drained more than once in a round, the
\* event drained first is the one kept in the map.
FirstSeenWins ==
    pc \in {"loop", "done"} =>
        \A i \in DOMAIN events : events[i] = drained[FirstOf(DrainedAt(i))]

\* C14 (as amended): when an event id is drained more than once in a round,
\* every later arrival replaces the stored event, and the event drained last
\* is the one kept in the map and returned.
LastSeenWins ==
    /\ pc \in {"loop", "done"} =>
          /\ DOMAIN events = {m.id : m \in Range(drained)}
          /\ \A i \in DOMAIN events : events[i] = drained[LastOf(DrainedAt(i))]
    /\ pc = "done" => result = events

\* Relay 1 and then relay 2 delivered the event with id 1; the map returned
\* holds the copy of relay 2.
LastSeenWitness ==
    /\ pc = "done"
    /\ drained = <<[id |-> 1, src |-> 1], [id |-> 1, src |-> 2]>>
    /\ result[1].src = 2

\* C15: every round, with or without quorum, ends with its subscription
\* closed on the relays and the relay connections closed: outside a round no
\* subscription and no connection is open, also when get_notes has returned;
\* during a round only the subscription of the round is open; the token of a
\* round was not used by any earlier round.
RoundsClosed ==
    /\ pc \in {"start", "loop", "done"} => (open_subs = {} /\ ~conn_open)
    /\ pc = "wait" => (open_subs = {subscription_id} /\ conn_open)
    /\ Len(tokens) = rounds
    /\ \A j \in DOMAIN tokens, k \in DOMAIN tokens : j < k => tokens[j] # tokens[k]
    /\ (pc = "wait" \/ rounds >= 1) => tokens[Len(tokens)] = subscription_id

\* get_notes has returned after a round without quorum and a round with
\* quorum, which used different tokens; nothing is open.
RoundsClosedWitness ==
    /\ pc = "done"
    /\ N = 2
    /\ hist = <<0, 2>>
    /\ Len(tokens) = 2 /\ tokens[1] # tokens[2]
    /\ open_subs = {} /\ ~conn_open

\* ------------------- latest event per author (get_follower_and_their_relays)

Authors == 1 .. MaxAuthors

\* The created_at values of the events.
Times == {100, 200}

\* The content values of the events: empty, the empty JSON object, a JSON
\* object with one relay url as key, and a string that is not JSON.
Contents == {"", "{}", "{\"wss://r1\":{}}", "junk"}

QueryIdle == QueryAt({})

InitResolve ==
    /\ QueryIdle
    /\ CoverIdle
    /\ RunIdle
    /\ rs_pc = "loop"
    /\ \E n \in 0 .. MaxEvents :
         \E f \in [1 .. n -> [pubkey : Authors, created_at : Times, content : Contents]] :
            rs_events = [k \in 1 .. n |->
                           [id |-> k, pubkey |-> f[k].pubkey,
                            created_at |-> f[k].created_at, content |-> f[k].content]]
    /\ rs_i = 1
    /\ following = {}
    /\ relays_per_user = EmptyMap
    /\ rs_output = EmptyMap

\* The condition without the test of the content.
ReplacesAnyContent(rpu, ev) ==
    \/ ev.pubkey \notin DOMAIN rpu
    \/ rpu[ev.pubkey].created_at < ev.created_at

\* The condition with <= for <: an event of equal created_at replaces too.
ReplacesOnTie(rpu, ev) ==
    /\ \/ ev.pubkey \notin DOMAIN rpu
       \/ rpu[ev.pubkey].created_at <= ev.created_at
    /\ Len(ev.content) > 0

\* Lines 232-234 (and 185-187): whether the event becomes the representative.
Replaces(rpu, ev) ==
    /\ \/ ev.pubkey \notin DOMAIN rpu
       \/ rpu[ev.pubkey].created_at < ev.created_at
    /\ Len(ev.content) > 0

\* relays_per_user[event.pubkey] = event
SetRep(rpu, ev) ==
    [a \in (DOMAIN rpu) \cup {ev.pubkey} |-> IF a = ev.pubkey THEN ev ELSE rpu[a]]

\* json.loads(content) succeeds.
JsonValid(c) ==
    c \in {"{}", "{\"wss://r1\":{}}", "{\"wss://r1\":{},\"wss://r2\":{}}"}

\* list(json.loads(content).keys())
JsonKeys(c) ==
    IF c = "{\"wss://r1\":{}}" THEN <<"wss://r1">>
    ELSE IF c = "{\"wss://r1\":{},\"wss://r2\":{}}" THEN <<"wss://r1", "wss://r2">>
    ELSE <<>>

\* Lines 229-235 (and 184-188): one iteration of the loop over events.items().
ResolveStep ==
    /\ rs_pc = "loop"
    /\ rs_i <= Len(rs_events)
    /\ LET ev == rs_events[rs_i] IN
         /\ following' = following \cup {ev.pubkey}
         /\ relays_per_user' = IF Replaces(relays_per_user, ev)
                               THEN SetRep(relays_per_user, ev)
                               ELSE relays_per_user
    /\ rs_i' = rs_i + 1
    /\ UNCHANGED <<rs_pc, rs_events, rs_output>>
    /\ UNCHANGED <<queryVars, coverVars, runVars, lateVars, guiVars>>

\* Lines 237-241 (and 190-194): the loop is over; the content of every
\* representative is decoded into its list of relay urls.
ResolveOutput ==
    /\ rs_pc = "loop"
    /\ rs_i > Len(rs_events)
    /\ \A a \in DOMAIN relays_per_user : JsonValid(relays_per_user[a].content)
    /\ rs_output' = [a \in DOMAIN relays_per_user |-> JsonKeys(relays_per_user[a].content)]
    /\ rs_pc' = "done"
    /\ UNCHANGED <<rs_events, rs_i, following, relays_per_user>>
    /\ UNCHANGED <<queryVars, coverVars, runVars, lateVars, guiVars>>

\* Lines 237-239 (and 190-192): json.loads raises on a representative whose
\* content is not JSON, and the exception leaves the function.
ResolveRaise ==
    /\ rs_pc = "loop"
    /\ rs_i > Len(rs_events)
    /\ \E a \in DOMAIN relays_per_user : ~JsonValid(relays_per_user[a].content)
    /\ rs_pc' = "raised"
    /\ UNCHANGED <<rs_events, rs_i, following, relays_per_user, rs_output>>
    /\ UNCHANGED <<queryVars, coverVars, runVars, lateVars, guiVars>>

NextResolve ==
    \/ ResolveStep
    \/ ResolveOutput
    \/ ResolveRaise

SpecResolve == InitResolve /\ [][NextResolve]_vars

\* The events the loop has iterated over.
Seen == {rs_events[k] : k \in 1 .. rs_i - 1}

\* The events of an author, among those iterated over, with non-empty content.
NonEmptyOf(a) == {e \in Seen : e.pubkey = a /\ e.content # ""}

\* C6: every representative is an event of its author with non-empty content,
\* and every author with a non-empty event among those iterated over has a
\* representative whose created_at is the maximum over the author's non-empty
\* events, in whatever order the events are iterated; an event with empty
\* content is never a representative.
LatestNonEmpty ==
    /\ \A a \in DOMAIN relays_per_user :
          /\ relays_per_user[a] \in NonEmptyOf(a)
          /\ \A e \in NonEmptyOf(a) : e.created_at <= relays_per_user[a].created_at
    /\ \A a \in Authors : NonEmptyOf(a) # {} => a \in DOMAIN relays_per_user

\* The events of one author at 100 and, with empty content, at 200 have been
\* iterated over in this order; the one at 100 is the representative.
LatestNonEmptyWitness ==
    /\ Len(rs_events) = 2
    /\ rs_i = 3
    /\ rs_events[1].pubkey = 1 /\ rs_events[1].created_at = 100 /\ rs_events[1].content = "{}"
    /\ rs_events[2].pubkey = 1 /\ rs_events[2].created_at = 200 /\ rs_events[2].content = ""
    /\ relays_per_user[1] = rs_events[1]

\* The authors whose representative has content that is valid JSON.
Decodable == {a \in DOMAIN relays_per_user : JsonValid(relays_per_user[a].content)}

\* C12: a relay-list event whose content is not valid JSON is skipped: the
\* resolution never ends with an exception, and it returns the relay lists of
\* all authors whose representative can be decoded.
InvalidJsonSkipped ==
    /\ rs_pc # "raised"
    /\ rs_pc = "done" =>
          /\ Decodable \subseteq DOMAIN rs_output
          /\ \A a \in Decodable : rs_output[a] = JsonKeys(relays_per_user[a].content)

\* When no representative has invalid content the resolution returns the
\* relay lists of all authors with a representative.
ValidJsonResolved ==
    /\ (rs_pc = "raised") => Decodable # DOMAIN relays_per_user
    /\ (rs_pc = "done") =>
          /\ DOMAIN rs_output = DOMAIN relays_per_user
          /\ \A a \in DOMAIN rs_output : rs_output[a] = JsonKeys(relays_per_user[a].content)

\* The index, in the iteration, of the first of an author's non-empty events
\* with the largest created_at among those iterated over.
FirstLatest(a) ==
    CHOOSE k \in 1 .. rs_i - 1 :
        /\ rs_events[k] \in NonEmptyOf(a)
        /\ \A e \in NonEmptyOf(a) : e.created_at <= rs_events[k].created_at
        /\ \A j \in 1 .. k - 1 :
              rs_events[j] \in NonEmptyOf(a) =>
                  rs_events[j].created_at < rs_events[k].created_at

\* C16: among an author's non-empty events with the largest created_at, the
\* one iterated over first is the representative: an event of equal
\* created_at iterated over later does not replace it.
TiesKeepFirst ==
    \A a \in DOMAIN relays_per_user :
        NonEmptyOf(a) # {} => relays_per_user[a] = rs_events[FirstLatest(a)]

\* Two non-empty events of one author with equal created_at have been
\* iterated over; the first is the representative.
TiesKeepFirstWitness ==
    /\ Len(rs_events) = 2
    /\ rs_i = 3
    /\ rs_events[1].pubkey = 1 /\ rs_events[2].pubkey = 1
    /\ rs_events[1].created_at = rs_events[2].created_at
    /\ rs_events[1].content = "{}"
    /\ rs_events[2].content = "{\"wss://r1\":{}}"
    /\ relays_per_user[1] = rs_events[1]

\* --------------------------------------------- Client.get_relay_statistics

Hosts == 1 .. MaxHosts

\* The relay urls: url h (h a host) stands for wss://<h>, and the last url is
\* a second url of host 1 (wss://<1>/path).
Urls == 1 .. MaxHosts + 1

\* parse.urlparse(relay).hostname, on the url as it is.
HostnameRaw(u) == u

\* parse.urlparse(relay).hostname
Hostname(u) == IF u > MaxHosts THEN u - MaxHosts ELSE u

\* Lines 302-307: result[pub][hostname] = 1, the cells of the frame that are 1.
Cells(rbp) ==
    {hp \in {Hostname(u) : u \in Urls} \X DOMAIN rbp :
        \E u \in rbp[hp[2]] : Hostname(u) = hp[1]}

\* df.sum(axis=1): for each row the sum of its cells over the columns.
RowSums(rows, columns, cells) ==
    [h \in rows |-> Cardinality({p \in columns : <<h, p>> \in cells})]

\* The rows with the largest Count.
MaxRows(rows, count) == {h \in rows : \A g \in rows : count[g] <= count[h]}

\* The rows with the smallest Count.
MinRows(rows, count) == {h \in rows : \A g \in rows : count[g] >= count[h]}

\* The first row after sort_values with ascending=True.
SortTopAscending(rows, count) ==
    IF rows = {} THEN {<<>>} ELSE {<<h>> : h \in MinRows(rows, count)}

\* Line 353, sort_values(["Count"], ascending=False) on new_df.  The order of
\* new_df is read only through its first row (index[0], iloc[0], values[0]),
\* so new_df is kept as its rows and the first of them: any of the rows with
\* the largest Count, the sort being unstable.
SortTop(rows, count) ==
    IF rows = {} THEN {<<>>} ELSE {<<h>> : h \in MaxRows(rows, count)}

\* Line 313, sort_values(["Count"], ascending=False) on df: the orders of
\* the rows by non-increasing Count; the order of rows with equal Count is
\* not fixed by the (unstable) sort.
RECURSIVE SortDescending(_, _)
SortDescending(rows, count) ==
    IF rows = {} THEN {<<>>}
    ELSE UNION {{<<h>> \o s : s \in SortDescending(rows \ {h}, count)} :
                  h \in MaxRows(rows, count)}

\* The lists of relay urls, numbered: list c holds url u when bit u - 1 of c
\* is set.
UrlList(c) == {u \in Urls : (c \div (2 ^ (u - 1))) % 2 = 1}

\* The non-decreasing sequences of n numbers in lo .. hi.
RECURSIVE NonDecreasing(_, _, _)
NonDecreasing(n, lo, hi) ==
    IF n = 0 THEN {<<>>}
    ELSE UNION {{<<c>> \o s : s \in NonDecreasing(n - 1, c, hi)} : c \in lo .. hi}

\* The inputs of get_relay_statistics with n followers whose lists hold the
\* first k urls.  The followers are interchangeable (the frame's sums and
\* drops do not depend on the order of its columns), so the inputs are taken
\* up to the order of the followers.
InputsOf(n, k) ==
    {[p \in 1 .. n |-> UrlList(s[p])] : s \in NonDecreasing(n, 0, 2 ^ k - 1)}

\* get_relay_statistics is called with the given input and setting.
CoverAt(input, necessary) ==
    /\ cv_pc = "start"
    /\ relays_by_pub = input
    /\ necessary_relays = necessary
    /\ df = EmptyFrame
    /\ new_df = EmptyNewFrame
    /\ minimum_necessary_relays = <<>>
    /\ cv_output = <<>>
    /\ added = <<>>

\* The inputs of the cover: every host is listed through one url.
InitCover ==
    /\ QueryIdle
    /\ ResolveIdle
    /\ RunIdle
    /\ \E n \in 0 .. MaxPubs, necessary \in BOOLEAN :
         \E input \in InputsOf(n, MaxHosts) : CoverAt(input, necessary)

\* The inputs of the follower counts: host 1 may be listed through two urls,
\* and only the table of the relays of the followers is asked for.
InitStats ==
    /\ QueryIdle
    /\ ResolveIdle
    /\ RunIdle
    /\ \E n \in 0 .. MaxPubs :
         \E input \in InputsOf(n, MaxHosts + 1) : CoverAt(input, FALSE)

\* BuildStats on a frame without the followers whose list is empty.
BuildStatsDropEmpty ==
    /\ cv_pc = "start"
    /\ LET cells == Cells(relays_by_pub)
           rows == {hp[1] : hp \in cells}
           columns == {hp[2] : hp \in cells}
           count == RowSums(rows, columns, cells)
       IN \E order \in SortDescending(rows, count) :
            /\ df' = [index |-> order, columns |-> columns, cells |-> cells,
                      Count |-> count]
            /\ new_df' = IF necessary_relays
                         THEN [top |-> IF order = <<>> THEN <<>> ELSE <<order[1]>>,
                               rows |-> rows,
                               columns |-> columns, cells |-> cells,
                               Count |-> count]
                         ELSE new_df
    /\ cv_pc' = IF necessary_relays THEN "loop" ELSE "done"
    /\ UNCHANGED <<relays_by_pub, necessary_relays, minimum_necessary_relays,
                   cv_output, added>>
    /\ UNCHANGED <<queryVars, resolveVars, runVars, lateVars, guiVars>>

\* Lines 298-313 and 341-344: the usage frame is built, its Count column
\* summed and its rows sorted; with necessary_relays the frame is copied for
\* the cover loop, otherwise the function returns.
BuildStats ==
    /\ cv_pc = "start"
    /\ LET cells == Cells(relays_by_pub)
           rows == {hp[1] : hp \in cells}
           columns == DOMAIN relays_by_pub
           count == RowSums(rows, columns, cells)
       IN \E order \in SortDescending(rows, count) :
            /\ df' = [index |-> order, columns |-> columns, cells |-> cells,
                      Count |-> count]
            /\ new_df' = IF necessary_relays
                         THEN [top |-> IF order = <<>> THEN <<>> ELSE <<order[1]>>,
                               rows |-> rows,
                               columns |-> columns, cells |-> cells,
                               Count |-> count]
                         ELSE new_df
    /\ cv_pc' = IF necessary_relays THEN "loop" ELSE "done"
    /\ UNCHANGED <<relays_by_pub, necessary_relays, minimum_necessary_relays,
                   cv_output, added>>
    /\ UNCHANGED <<queryVars, resolveVars, runVars, lateVars, guiVars>>

\* Lines 345-353: the first row has a positive Count: its relay is selected,
\* its row and the columns of the followers it covers are dropped, the Count
\* column is summed again and the rows are sorted again.
CoverStep ==
    /\ cv_pc = "loop"
    /\ Len(new_df.top) > 0
    /\ new_df.Count[new_df.top[1]] > 0
    /\ LET relay == new_df.top[1]
           rows == new_df.rows \ {relay}
           columns_to_drop == {p \in new_df.columns : <<relay, p>> \in new_df.cells}
           columns == new_df.columns \ columns_to_drop
           count == RowSums(rows, columns, new_df.cells)
       IN /\ minimum_necessary_relays' = Append(minimum_necessary_relays, relay)
          /\ added' = Append(added, columns_to_drop)
          /\ \E top \in SortTop(rows, count) :
               new_df' = [top |-> top, rows |-> rows, columns |-> columns,
                          cells |-> new_df.cells, Count |-> count]
    /\ UNCHANGED <<cv_pc, relays_by_pub, necessary_relays, df, cv_output>>
    /\ UNCHANGED <<queryVars, resolveVars, runVars, lateVars, guiVars>>

\* Line 345: new_df has no row left, and iloc[0] raises IndexError.
CoverRaise ==
    /\ cv_pc = "loop"
    /\ Len(new_df.top) = 0
    /\ cv_pc' = "raised"
    /\ UNCHANGED <<relays_by_pub, necessary_relays, df, new_df,
                   minimum_necessary_relays, cv_output, added>>
    /\ UNCHANGED <<queryVars, resolveVars, runVars, lateVars, guiVars>>

\* The table with, for each selected relay, the followers it newly covered.
CoverFinishIncremental ==
    /\ cv_pc = "loop"
    /\ Len(new_df.top) > 0
    /\ new_df.Count[new_df.top[1]] = 0
    /\ cv_output' = [k \in DOMAIN minimum_necessary_relays |->
                       [relay |-> minimum_necessary_relays[k],
                        count |-> Cardinality(added[k])]]
    /\ cv_pc' = "done"
    /\ UNCHANGED <<relays_by_pub, necessary_relays, df, new_df,
                   minimum_necessary_relays, added>>
    /\ UNCHANGED <<queryVars, resolveVars, runVars, lateVars, guiVars>>

\* Lines 345 and 355-387: the first row has Count 0 and the loop ends; every
\* selected relay gets df["Count"][relay] as its number of followers, and the
\* table lists the relays in the order of their selection.
CoverFinish ==
    /\ cv_pc = "loop"
    /\ Len(new_df.top) > 0
    /\ new_df.Count[new_df.top[1]] = 0
    /\ cv_output' = [k \in DOMAIN minimum_necessary_relays |->
                       [relay |-> minimum_necessary_relays[k],
                        count |-> df.Count[minimum_necessary_relays[k]]]]
    /\ cv_pc' = "done"
    /\ UNCHANGED <<relays_by_pub, necessary_relays, df, new_df,
                   minimum_necessary_relays, added>>
    /\ UNCHANGED <<queryVars, resolveVars, runVars, lateVars, guiVars>>

NextCover ==
    \/ BuildStats
    \/ CoverStep
    \/ CoverRaise
    \/ CoverFinish

SpecCover == InitCover /\ [][NextCover]_vars

NextStats == BuildStats

SpecStats == InitStats /\ [][NextStats]_vars

\* ------------------------------------- claims about get_relay_statistics

\* Whether follower p lists relay host h: through the url of h or, for host
\* 1, through its second url.
Lists(p, h) ==
    \E u \in relays_by_pub[p] : u = h \/ (h = 1 /\ u = MaxHosts + 1)

\* The followers that use relay host h.
UsersOf(h) == {p \in DOMAIN relays_by_pub : Lists(p, h)}

\* The relay hosts of the input.
InputHosts == {h \in Hosts : UsersOf(h) # {}}

\* The followers with at least one relay.
WithRelay == {p \in DOMAIN relays_by_pub : relays_by_pub[p] # {}}

\* The relays of the table, in its order.
OutputRelays == [k \in DOMAIN cv_output |-> cv_output[k].relay]

\* The followers covered by the first k selected relays.
CoveredBy(k) == UNION {UsersOf(minimum_necessary_relays[j]) : j \in 1 .. k}

\* The sum of the counts of the table.
RECURSIVE SumCounts(_)
SumCounts(rows) ==
    IF rows = <<>> THEN 0 ELSE Head(rows).count + SumCounts(Tail(rows))

\* C7: for every input with a follower that has a relay, the minimum cover
\* ends with a table whose relays are relays of the input and are used,
\* together, by exactly the followers that have a relay.
CoverReachesAll ==
    (necessary_relays /\ WithRelay # {} /\ cv_pc \in {"done", "raised"}) =>
        /\ cv_pc = "done"
        /\ Range(OutputRelays) \subseteq InputHosts
        /\ UNION {UsersOf(h) : h \in Range(OutputRelays)} = WithRelay

\* When the minimum cover does return its table, the relays of the table are
\* relays of the input and reach every follower that has a relay.
CoverWhenReturned ==
    (necessary_relays /\ cv_pc = "done") =>
        /\ Range(OutputRelays) \subseteq InputHosts
        /\ UNION {UsersOf(h) : h \in Range(OutputRelays)} = WithRelay

\* C8 as stated: every entry of the table carries the number of followers
\* newly covered by the selection of its relay, and the counts sum to the
\* number of followers with a relay.
IncrementalCounts ==
    (necessary_relays /\ cv_pc = "done") =>
        /\ \A k \in DOMAIN cv_output : cv_output[k].count = Cardinality(added[k])
        /\ SumCounts(cv_output) = Cardinality(WithRelay)

\* C8 (as amended): every entry of the table carries the total usage of its
\* relay, the number of followers of the input that use it; this is at least
\* the number of followers newly covered by its selection, and the counts
\* sum to at least the number of followers with a relay.
TotalUsageCounts ==
    (necessary_relays /\ cv_pc = "done") =>
        /\ Len(cv_output) = Len(added)
        /\ \A k \in DOMAIN cv_output :
              /\ added[k] = UsersOf(cv_output[k].relay) \ CoveredBy(k - 1)
              /\ cv_output[k].count = Cardinality(UsersOf(cv_output[k].relay))
              /\ cv_output[k].count >= Cardinality(added[k])
        /\ SumCounts(cv_output) >= Cardinality(WithRelay)

\* The table has a relay whose count is larger than the number of followers
\* its selection newly covered.
TotalUsageWitness ==
    /\ necessary_relays
    /\ cv_pc = "done"
    /\ \E k \in DOMAIN cv_output : cv_output[k].count > Cardinality(added[k])
    /\ SumCounts(cv_output) > Cardinality(WithRelay)

\* The followers B: [r2], A: [r1, r2], C: [r3].
ExampleInput == relays_by_pub = <<{2}, {1, 2}, {3}>>

\* C9: the minimum cover is the greedy selection: every selected relay is a
\* relay not selected before whose number of not yet covered followers is
\* positive and the largest among the relays not selected before; the loop
\* ends only when no remaining relay has such a follower; the table lists the
\* relays in the order of their selection; for the followers A: [r1, r2],
\* B: [r2], C: [r3] the table is r2, then r3.
GreedySelection ==
    /\ \A k \in DOMAIN minimum_necessary_relays :
          LET candidates == InputHosts \ {minimum_necessary_relays[j] : j \in 1 .. k - 1}
              Remaining(h) == Cardinality(UsersOf(h) \ CoveredBy(k - 1))
              relay == minimum_necessary_relays[k]
          IN /\ relay \in candidates
             /\ Remaining(relay) > 0
             /\ \A c \in candidates : Remaining(c) <= Remaining(relay)
    /\ (necessary_relays /\ cv_pc = "done") =>
          /\ OutputRelays = minimum_necessary_relays
          /\ \A h \in InputHosts :
                UsersOf(h) \subseteq CoveredBy(Len(minimum_necessary_relays))
    /\ (necessary_relays /\ ExampleInput) =>
          /\ cv_pc # "raised"
          /\ cv_pc = "done" => OutputRelays = <<2, 3>>

\* The table of the example: r2, then r3.
GreedySelectionWitness ==
    /\ necessary_relays
    /\ ExampleInput
    /\ cv_pc = "done"
    /\ OutputRelays = <<2, 3>>

\* C10: the rows of df are the relay hosts of the input, each once, with the
\* number of followers whose list has a url of that host as Count (a follower
\* listing two urls of a host counts once), in an order of non-increasing
\* Count.
FollowerCounts ==
    cv_pc = "done" =>
        /\ Range(df.index) = InputHosts
        /\ Len(df.index) = Cardinality(InputHosts)
        /\ DOMAIN df.Count = InputHosts
        /\ \A h \in InputHosts : df.Count[h] = Cardinality(UsersOf(h))
        /\ \A i \in DOMAIN df.index, j \in DOMAIN df.index :
              i < j => df.Count[df.index[i]] >= df.Count[df.index[j]]

\* A follower lists both urls of host 1 and is its only user; another relay
\* has more followers and comes first.
FollowerCountsWitness ==
    /\ cv_pc = "done"
    /\ \E p \in DOMAIN relays_by_pub : {1, MaxHosts + 1} \subseteq relays_by_pub[p]
    /\ df.Count[1] = 1
    /\ Len(df.index) >= 2
    /\ df.Count[df.index[1]] = 2

\* The followers that are columns of the frame without any cell set.
EmptyColumns == {p \in df.columns : \A h \in Hosts : <<h, p>> \notin df.cells}

\* C17 as stated: every follower that is a column of the usage frame has at
\* least one relay.
NoEmptyAuthors == cv_pc # "start" => EmptyColumns = {}

\* C17 (as amended): every follower of the input is a column of the usage
\* frame, also one whose list of relays is empty; such a column has no cell
\* set, adds nothing to any Count, and is never dropped by the cover loop.
AllAuthorsKept ==
    cv_pc # "start" =>
        /\ df.columns = DOMAIN relays_by_pub
        /\ EmptyColumns = (DOMAIN relays_by_pub) \ WithRelay
        /\ \A h \in DOMAIN df.Count : df.Count[h] = Cardinality(UsersOf(h) \cap WithRelay)
        /\ necessary_relays => EmptyColumns \subseteq new_df.columns

\* The cover has returned for an input with a follower without relays and a
\* follower with one; both are columns of the frame.
AllAuthorsKeptWitness ==
    /\ cv_pc = "done"
    /\ necessary_relays
    /\ Len(cv_output) = 1
    /\ EmptyColumns # {}
    /\ WithRelay # {}

\* C20: for every input with a follower that has a relay, the cover loop ends
\* normally with its table: the loop test never reads the first row of a
\* frame without rows, also when every relay of the input has been selected.
CoverLoopEnds ==
    (necessary_relays /\ WithRelay # {}) =>
        /\ cv_pc # "raised"
        /\ ~ENABLED CoverRaise
        /\ cv_pc = "loop" => (ENABLED CoverStep \/ ENABLED CoverFinish)

\* The cover loop fails exactly when every relay host of the input has been
\* selected, and returns its table otherwise.
CoverLoopFailsWhenAllSelected ==
    /\ cv_pc = "raised" => Range(minimum_necessary_relays) = InputHosts
    /\ (necessary_relays /\ cv_pc = "done") =>
          Range(minimum_necessary_relays) # InputHosts

\* ---------------------------------------------------------------- Client.run

\* The public key of self.npub, as an author.
Npub == 1

\* The urls of the "relays" list of the configuration: a relay that is not in
\* anybody's relay list and one that is.
ConfigUrls == {"wss://nos.lol", "wss://r1"}

\* The values load_config returns: a dict with a "relays" list, or a dict
\* read from a config.json without the "relays" key.
Configs ==
    {[haskey |-> FALSE, relays |-> <<>>]} \cup
    {[haskey |-> TRUE, relays |-> l] :
        l \in UNION {[1 .. n -> ConfigUrls] : n \in 0 .. MaxConfig}}

\* The content values of the events fetched by run: those of Contents and a
\* JSON object with two relay urls as keys.
RunContents == Contents \cup {"{\"wss://r1\":{},\"wss://r2\":{}}"}

\* The values get_notes may return to run: events.items() in its order.
Fetched ==
    UNION {{[k \in 1 .. n |-> [id |-> k, pubkey |-> f[k].pubkey,
                               created_at |-> f[k].created_at,
                               content |-> f[k].content]] :
              f \in [1 .. n -> [pubkey : Authors, created_at : Times,
                                content : RunContents]]} :
           n \in 0 .. MaxFetched}

\* Lines 183-188 and 228-235: the loop over events.items().
RECURSIVE ResolveAll(_, _)
ResolveAll(evs, rpu) ==
    IF evs = <<>> THEN rpu
    ELSE ResolveAll(Tail(evs),
                    IF Replaces(rpu, Head(evs)) THEN SetRep(rpu, Head(evs)) ELSE rpu)

\* Lines 190-192 and 237-239: json.loads succeeds on every representative.
Decodes(rpu) == \A a \in DOMAIN rpu : JsonValid(rpu[a].content)

\* The relay wss://r<h> as a url of the input of get_relay_statistics.
UrlNumber(u) == IF u = "wss://r1" THEN 1 ELSE 2

\* Lines 237-241: the relay lists by public key handed to get_relay_statistics.
RelaysByPub(rpu) ==
    [a \in DOMAIN rpu |-> {UrlNumber(u) : u \in Range(JsonKeys(rpu[a].content))}]

\* Lines 343-353: how the cover loop can end on a frame: "done" when its
\* test finds a first row with Count 0, "raised" when it finds no row.
RECURSIVE CoverEnds(_, _, _)
CoverEnds(rows, columns, cells) ==
    IF rows = {} THEN {"raised"}
    ELSE LET count == RowSums(rows, columns, cells) IN
         UNION {IF count[t[1]] > 0
                THEN CoverEnds(rows \ {t[1]},
                               columns \ {p \in columns : <<t[1], p>> \in cells},
                               cells)
                ELSE {"done"} :
                t \in SortTop(rows, count)}

\* Lines 291-387: how get_relay_statistics can end on the given input.
StatisticsEnds(rbp) ==
    IF necessary_relays
    THEN CoverEnds({hp[1] : hp \in Cells(rbp)}, DOMAIN rbp, Cells(rbp))
    ELSE {"done"}

\* run is started with the given configuration, key and settings.
InitRun ==
    /\ QueryIdle
    /\ ResolveIdle
    /\ cv_pc = "done"
    /\ relays_by_pub = <<>>
    /\ necessary_relays \in BOOLEAN
    /\ df = EmptyFrame
    /\ new_df = EmptyNewFrame
    /\ minimum_necessary_relays = <<>>
    /\ cv_output = <<>>
    /\ added = <<>>
    /\ run_pc = "start"
    /\ config \in Configs
    /\ npub_ok \in BOOLEAN
    /\ activity_on_npub \in BOOLEAN
    /\ relays_of_followers \in BOOLEAN
    /\ current_relays = <<>>
    /\ log = <<>>
    /\ exported = FALSE
    /\ finished = FALSE
    /\ error = "none"
    /\ relay_added = EmptyMap
    /\ add_calls = 0
    /\ sent = <<>>
    /\ NoGui

\* add_relays without remove_closed_relays: the relays tracked stay.
AddRelaysKeep(urls) ==
    /\ relays' = relays \cup Range(urls)
    /\ conn_open' = FALSE
    /\ relay_added' = [u \in relays \cup Range(urls) |->
                          IF u \in Range(urls) THEN add_calls + 1 ELSE relay_added[u]]
    /\ add_calls' = add_calls + 1

\* Lines 83-97, add_relays: all connections are closed, the closed relays
\* (all of them) are removed, and a relay is added for every url of the list;
\* the relays are kept by url, so a url listed twice is tracked once.
AddRelays(urls) ==
    /\ relays' = Range(urls)
    /\ conn_open' = FALSE
    /\ relay_added' = [u \in Range(urls) |-> add_calls + 1]
    /\ add_calls' = add_calls + 1

\* The except clause without the emit of the error text.
FailSilent(msgs, stage, text) ==
    /\ log' = log \o msgs
    /\ error' = stage
    /\ run_pc' = "failed"
    /\ UNCHANGED <<exported, finished>>

\* Lines 493-495: an exception raised by a stage, after the stage emitted the
\* given messages, reaches the except clause of run, which emits its text;
\* run ends there.
Fail(msgs, stage, text) ==
    /\ log' = log \o msgs \o <<text>>
    /\ error' = stage
    /\ run_pc' = "failed"
    /\ UNCHANGED <<exported, finished>>

\* A stage emits the given messages and run goes on.
Pass(msgs, next) ==
    /\ log' = log \o msgs
    /\ run_pc' = next
    /\ UNCHANGED <<error, exported, finished>>

\* get_notes as run sees it: the query goes to the relays of the pool, with
\* their number as relay_count, and returns the given events; on an empty
\* pool it returns no event; the connections are closed when it returns.
Fetch(query, evs) ==
    /\ relays = {} => evs = <<>>
    /\ relay_count' = Cardinality(relays)
    /\ conn_open' = FALSE
    /\ sent' = Append(sent, [query |-> query, to |-> relays,
                             count |-> Cardinality(relays),
                             empty |-> (evs = <<>>)])

\* The stage of calculate_stats after the statistics of the followers' relays.
AfterNotifications ==
    IF necessary_relays \/ relays_of_followers THEN "followers" ELSE "export"

\* The first stage of calculate_stats.
FirstStatistics == IF activity_on_npub THEN "notif" ELSE AfterNotifications

\* Lines 469-474: the configuration is loaded and the pool is set to its
\* relays; config["relays"] raises KeyError when the key is missing.
RunLoadStartup ==
    /\ run_pc = "start"
    /\ IF config.haskey
       THEN /\ Pass(<<"Load default relays.">>, "own")
            /\ AddRelays(config.relays)
       ELSE /\ Fail(<<"Load default relays.">>, "config", "'relays'")
            /\ UNCHANGED <<relays, conn_open, relay_added, add_calls>>
    /\ UNCHANGED <<pc, relay_count, eose_count, events, subscription_id,
                   pool_events, pool_eose, open_subs, result, rounds, delivered,
                   emitted, earlier, hist, drained, tokens>>
    /\ UNCHANGED <<config, npub_ok, activity_on_npub, relays_of_followers,
                   current_relays, sent>>
    /\ UNCHANGED <<resolveVars, coverVars, lateVars, guiVars>>

\* Lines 476-478, get_own_relays (160-170) and get_relays (172-194): the key
\* is converted (which raises on an invalid npub), the relay-list events of
\* the key are queried, resolved and decoded, and the list of the key is
\* looked up, which raises KeyError when the key has no representative.
RunOwnRelays ==
    /\ run_pc = "own"
    /\ IF ~npub_ok
       THEN /\ Fail(<<"Retrieve users own relays.">>, "npub", "invalid npub")
            /\ UNCHANGED <<relay_count, conn_open, sent, current_relays>>
       ELSE \E evs \in Fetched :
              /\ Fetch("own", evs)
              /\ LET rpu == ResolveAll(evs, EmptyMap) IN
                   IF ~Decodes(rpu)
                   THEN /\ Fail(<<"Retrieve users own relays.">>, "own",
                                "Expecting value: line 1 column 1 (char 0)")
                        /\ UNCHANGED current_relays
                   ELSE IF Npub \notin DOMAIN rpu
                   THEN /\ Fail(<<"Retrieve users own relays.">>, "own", "'npub_hex'")
                        /\ UNCHANGED current_relays
                   ELSE /\ Pass(<<"Retrieve users own relays.">>, "swap")
                        /\ current_relays' = JsonKeys(rpu[Npub].content)
    /\ UNCHANGED <<pc, relays, eose_count, events, subscription_id,
                   pool_events, pool_eose, open_subs, result, rounds, delivered,
                   emitted, earlier, hist, drained, tokens>>
    /\ UNCHANGED <<config, npub_ok, activity_on_npub, relays_of_followers,
                   relay_added, add_calls>>
    /\ UNCHANGED <<resolveVars, coverVars, lateVars, guiVars>>

\* RunLoadOwn without the call of add_relays: the pool stays as it is.
RunLoadOwnNoSwap ==
    /\ run_pc = "swap"
    /\ Pass(<<"Load user's own relays.", "Start statistics calculation.">>,
            FirstStatistics)
    /\ UNCHANGED <<pc, relays, relay_count, eose_count, events, subscription_id,
                   pool_events, pool_eose, open_subs, conn_open, result, rounds,
                   delivered, emitted, earlier, hist, drained, tokens>>
    /\ UNCHANGED <<config, npub_ok, activity_on_npub, relays_of_followers,
                   current_relays, relay_added, add_calls, sent>>
    /\ UNCHANGED <<resolveVars, coverVars, lateVars, guiVars>>

\* Lines 480-486: the pool is set to the relays of the key, and
\* calculate_stats is entered.
RunLoadOwn ==
    /\ run_pc = "swap"
    /\ Pass(<<"Load user's own relays.", "Start statistics calculation.">>,
            FirstStatistics)
    /\ AddRelays(current_relays)
    /\ UNCHANGED <<pc, relay_count, eose_count, events, subscription_id,
                   pool_events, pool_eose, open_subs, result, rounds, delivered,
                   emitted, earlier, hist, drained, tokens>>
    /\ UNCHANGED <<config, npub_ok, activity_on_npub, relays_of_followers,
                   current_relays, sent>>
    /\ UNCHANGED <<resolveVars, coverVars, lateVars, guiVars>>

\* Lines 396-409 and get_notifications (196-214): the notifications are
\* queried and those of other keys are put into a frame; df["created_at"]
\* raises KeyError on the frame made of no notification.
RunNotifications ==
    /\ run_pc = "notif"
    /\ \E evs \in Fetched :
         /\ Fetch("notifications", evs)
         /\ LET IsOther(ev) == ev.pubkey # Npub
                data == SelectSeq(evs, IsOther)
            IN IF data = <<>>
               THEN Fail(<<"STARTED: Activity (notifications) on npub.",
                           "1.) Retrieving notifications for npub.">>,
                         "notifications", "'created_at'")
               ELSE Pass(<<"STARTED: Activity (notifications) on npub.",
                           "1.) Retrieving notifications for npub.",
                           "2.) Generating plots for notifications.",
                           "FINISHED: Activity (notifications) on npub.">>,
                         AfterNotifications)
    /\ UNCHANGED <<pc, relays, eose_count, events, subscription_id,
                   pool_events, pool_eose, open_subs, result, rounds, delivered,
                   emitted, earlier, hist, drained, tokens>>
    /\ UNCHANGED <<config, npub_ok, activity_on_npub, relays_of_followers,
                   current_relays, relay_added, add_calls>>
    /\ UNCHANGED <<resolveVars, coverVars, lateVars, guiVars>>

\* Lines 411-424, get_follower_and_their_relays (216-241) and
\* get_relay_statistics (291-387): the relay lists of the followers are
\* queried, resolved and decoded, and the statistics are computed.
RunRelayStatistics ==
    /\ run_pc = "followers"
    /\ \E evs \in Fetched :
         /\ Fetch("followers", evs)
         /\ LET rpu == ResolveAll(evs, EmptyMap) IN
              IF ~Decodes(rpu)
              THEN Fail(<<"STARTED: Relay statistics",
                          "1.) Retrieving followers and their relays.">>,
                        "followers", "Expecting value: line 1 column 1 (char 0)")
              ELSE \E end \in StatisticsEnds(RelaysByPub(rpu)) :
                     IF end = "raised"
                     THEN Fail(<<"STARTED: Relay statistics",
                                 "1.) Retrieving followers and their relays.",
                                 "2.) Generating plots for relays.">>,
                               "statistics",
                               "single positional indexer is out-of-bounds")
                     ELSE Pass(<<"STARTED: Relay statistics",
                                 "1.) Retrieving followers and their relays.",
                                 "2.) Generating plots for relays.",
                                 "FINISHED: Least necessary relays">>,
                               "export")
    /\ UNCHANGED <<pc, relays, eose_count, events, subscription_id,
                   pool_events, pool_eose, open_subs, result, rounds, delivered,
                   emitted, earlier, hist, drained, tokens>>
    /\ UNCHANGED <<config, npub_ok, activity_on_npub, relays_of_followers,
                   current_relays, relay_added, add_calls>>
    /\ UNCHANGED <<resolveVars, coverVars, lateVars, guiVars>>

\* Lines 426-430 and 488-492: the report is written (export_html, 432-459,
\* which raises when the file cannot be written), opened, and finished(True)
\* is emitted.
RunExport ==
    /\ run_pc = "export"
    /\ \E written \in BOOLEAN :
         IF written
         THEN /\ log' = log \o <<"Generating output html.",
                                 "Statistics generation finished!">>
              /\ exported' = TRUE
              /\ finished' = TRUE
              /\ run_pc' = "done"
              /\ UNCHANGED error
         ELSE Fail(<<"Generating output html.">>, "export",
                   "[Errno 13] Permission denied: './output/index.html'")
    /\ UNCHANGED <<config, npub_ok, activity_on_npub, relays_of_followers,
                   current_relays, relay_added, add_calls, sent>>
    /\ UNCHANGED <<queryVars, resolveVars, coverVars, lateVars, guiVars>>

NextRun ==
    \/ RunLoadStartup
    \/ RunOwnRelays
    \/ RunLoadOwn
    \/ RunNotifications
    \/ RunRelayStatistics
    \/ RunExport

SpecRun == InitRun /\ [][NextRun]_vars

\* ------------------------------------------------------- claims about run

\* The checkpoint messages of run and calculate_stats.
Checkpoints ==
    {"Load default relays.", "Retrieve users own relays.",
     "Load user's own relays.", "Start statistics calculation.",
     "STARTED: Activity (notifications) on npub.",
     "1.) Retrieving notifications for npub.",
     "2.) Generating plots for notifications.",
     "FINISHED: Activity (notifications) on npub.",
     "STARTED: Relay statistics",
     "1.) Retrieving followers and their relays.",
     "2.) Generating plots for relays.",
     "FINISHED: Least necessary relays",
     "Generating output html.", "Statistics generation finished!"}

\* The query issued last.
LastSent == sent[Len(sent)]

\* C11: a query that recovers zero events is not an error: when the query
\* issued last returned no event (no relay-list event of the key in
\* get_own_relays, no notification in get_notifications, no relay list of a
\* follower for get_relay_statistics), the stage it belongs to raises no
\* exception.
EmptyResultsValid ==
    (Len(sent) >= 1 /\ LastSent.empty) =>
        error \notin {"own", "notifications", "followers", "statistics"}

\* What the stages do on a query that returned no event: get_own_relays and
\* get_notifications raise, and get_relay_statistics raises when the minimum
\* necessary relays are asked for.
EmptyResultsOutcome ==
    (Len(sent) >= 1 /\ LastSent.empty) =>
        /\ LastSent.query = "own" => (run_pc = "failed" /\ error = "own")
        /\ LastSent.query = "notifications" =>
              (run_pc = "failed" /\ error = "notifications")
        /\ (LastSent.query = "followers" /\ necessary_relays) =>
              (run_pc = "failed" /\ error = "statistics")
        /\ (LastSent.query = "followers" /\ ~necessary_relays) =>
              error \in {"none", "export"}

\* C13: when a stage of run raises, the text of the exception is emitted as
\* the last message of the run, after checkpoint messages only; run halts
\* there: no step of run is left, the report is not exported and
\* finished(True) is not emitted.
ErrorIsTerminal ==
    /\ error # "none" <=> run_pc = "failed"
    /\ run_pc = "failed" =>
          /\ Len(log) >= 2
          /\ log[Len(log)] \notin Checkpoints
          /\ \A k \in 1 .. Len(log) - 1 : log[k] \in Checkpoints
          /\ ~exported
          /\ ~finished
          /\ ~ENABLED NextRun
    /\ run_pc # "failed" => \A k \in DOMAIN log : log[k] \in Checkpoints
    /\ finished => (exported /\ run_pc = "done")

\* The conversion of an invalid npub raised: run ended with the text of the
\* exception after two checkpoint messages.
ErrorIsTerminalWitness ==
    /\ run_pc = "failed"
    /\ error = "npub"
    /\ log = <<"Load default relays.", "Retrieve users own relays.", "invalid npub">>

\* C18: run sets the pool to the relays of the configuration, then issues the
\* query for the key's own relay list to exactly those relays, then sets the
\* pool to the key's own relays, and only then issues the notification and
\* follower queries, which go to exactly the key's own relays and to no relay
\* of the configuration that is not one of them.
PhasesInOrder ==
    /\ run_pc = "own" => (add_calls = 1 /\ sent = <<>>)
    /\ run_pc = "swap" => (add_calls = 1 /\ Len(sent) = 1)
    /\ run_pc \in {"notif", "followers", "export", "done"} => add_calls = 2
    /\ \A k \in DOMAIN sent :
          /\ k = 1 => /\ sent[k].query = "own"
                      /\ sent[k].to = Range(config.relays)
          /\ k > 1 => /\ sent[k].query \in {"notifications", "followers"}
                      /\ add_calls = 2
                      /\ sent[k].to = Range(current_relays)
                      /\ sent[k].to \cap (Range(config.relays) \ Range(current_relays)) = {}
          /\ \A j \in 1 .. k - 1 : sent[k].query = "notifications" => sent[j].query = "own"

\* run is done: the own relay list was asked of the relay of the
\* configuration, the notifications and the followers of the key's own relay.
PhasesInOrderWitness ==
    /\ run_pc = "done"
    /\ config.relays = <<"wss://nos.lol">>
    /\ current_relays = <<"wss://r1">>
    /\ Len(sent) = 3
    /\ sent[1].to = {"wss://nos.lol"}
    /\ sent[2].query = "notifications" /\ sent[2].to = {"wss://r1"}
    /\ sent[3].query = "followers" /\ sent[3].to = {"wss://r1"}

\* The list given to the add_relays call made last.
LastAdded == IF add_calls = 1 THEN config.relays ELSE current_relays

\* C19: after add_relays the pool tracks exactly the urls of the list given:
\* every relay of the pool was added by this call, none tracked before it is
\* left, all connections were closed, and the relay count of every query is
\* the number of distinct urls of the list given to the call before it.
PoolReplaced ==
    /\ add_calls >= 1 =>
          /\ relays = Range(LastAdded)
          /\ DOMAIN relay_added = relays
          /\ \A u \in relays : relay_added[u] = add_calls
          /\ ~conn_open
    /\ \A k \in DOMAIN sent :
          /\ sent[k].count = Cardinality(sent[k].to)
          /\ k = 1 => sent[k].count = Cardinality(Range(config.relays))
          /\ k > 1 => sent[k].count = Cardinality(Range(current_relays))
    /\ Len(sent) >= 1 => relay_count = LastSent.count

\* The pool of two startup relays was replaced by the one relay of the key,
\* and the next query counted one relay.
PoolReplacedWitness ==
    /\ add_calls = 2
    /\ config.relays = <<"wss://nos.lol", "wss://r1">>
    /\ current_relays = <<"wss://r1">>
    /\ relays = {"wss://r1"}
    /\ Len(sent) = 2
    /\ sent[1].count = 2
    /\ sent[2].count = 1

\* ------------------------------------ messages of earlier subscriptions

\* The subscription ids of the rounds before the current one.
EarlierTokens == Range(tokens) \ {subscription_id}

\* During run_sync a relay sends an event under the subscription id of an
\* earlier round; the library puts it into the shared pool like any other
\* event message.  The messages of the pool carry their subscription id,
\* which get_notes never reads; it is kept in the history only.
LateEvent(r, i, t) ==
    /\ pc = "wait"
    /\ t \in EarlierTokens
    /\ r \in relays
    /\ Len(pool_events) < MaxPool
    /\ \A k \in 1 .. Len(pool_events) : pool_events[k] # [id |-> i, src |-> r]
    /\ pool_events' = Append(pool_events, [id |-> i, src |-> r])
    /\ late' = late \cup {[id |-> i, src |-> r, sub |-> t]}
    /\ UNCHANGED <<pc, relays, relay_count, eose_count, events, subscription_id,
                   pool_eose, open_subs, conn_open, result, rounds, delivered,
                   emitted, earlier, hist, drained, tokens, late_eose>>
    /\ UNCHANGED <<resolveVars, coverVars, runVars, guiVars>>

\* During run_sync a relay sends EOSE under the subscription id of an earlier
\* round; the library queues it like any other EOSE message.
LateEose(t) ==
    /\ pc = "wait"
    /\ t \in EarlierTokens
    /\ late_eose < MaxLate
    /\ pool_eose' = pool_eose + 1
    /\ late_eose' = late_eose + 1
    /\ UNCHANGED <<pc, relays, relay_count, eose_count, events, subscription_id,
                   pool_events, open_subs, conn_open, result, rounds, delivered,
                   emitted, earlier, hist, drained, tokens, late>>
    /\ UNCHANGED <<resolveVars, coverVars, runVars, guiVars>>

NextLate ==
    \/ NextQuery
    \/ \E r \in 1 .. MaxRelays, i \in Ids, t \in 1 .. MaxRounds : LateEvent(r, i, t)
    \/ \E t \in 1 .. MaxRounds : LateEose(t)

SpecLate == InitQuery /\ [][NextLate]_vars

\* C21: the EOSE count and the events of a round come only from the
\* subscription of that round: the EOSE counted after a round are those sent
\* under its subscription id, and every event of the map (and of the mapping
\* returned) was sent under it; a message of an earlier subscription that
\* arrives in the pool is neither counted nor included.
OnlyOwnSubscription ==
    (pc \in {"loop", "done"} /\ rounds >= 1) =>
        /\ eose_count = emitted
        /\ DOMAIN events \subseteq DeliveredIds
        /\ pc = "done" => DOMAIN result \subseteq DeliveredIds

\* What get_notes does with the pool: every EOSE message and every event
\* message found in it after run_sync is counted or stored, whatever its
\* subscription id.
WholePoolCounted ==
    (pc \in {"loop", "done"} /\ rounds >= 1) =>
        /\ eose_count = emitted + late_eose
        /\ DOMAIN events = DeliveredIds \cup {m.id : m \in late}

\* ------------------------------------------------------------------- Gui

\* Whether a Client thread is executing run.
Running == run_pc \in {"start", "own", "swap", "notif", "followers", "export"}

\* The window is shown, with its controls enabled and no Client created.
InitGui ==
    /\ QueryIdle
    /\ ResolveIdle
    /\ CoverIdle
    /\ run_pc = "idle"
    /\ config = [haskey |-> TRUE, relays |-> <<>>]
    /\ npub_ok = TRUE
    /\ activity_on_npub = FALSE
    /\ relays_of_followers = FALSE
    /\ current_relays = <<>>
    /\ log = <<>>
    /\ exported = FALSE
    /\ finished = FALSE
    /\ error = "none"
    /\ relay_added = EmptyMap
    /\ add_calls = 0
    /\ sent = <<>>
    /\ gui_enabled = TRUE
    /\ handled = FALSE
    /\ live = 0
    /\ clicks = 0

\* click_run without the call of disable_gui.
ClickRunNoDisable ==
    /\ gui_enabled
    /\ clicks < MaxClicks
    /\ clicks' = clicks + 1
    /\ gui_enabled' = gui_enabled
    /\ handled' = FALSE
    /\ live' = (IF Running THEN live ELSE 0) + 1
    /\ run_pc' = "start"
    /\ config' \in Configs
    /\ npub_ok' \in BOOLEAN
    /\ activity_on_npub' \in BOOLEAN
    /\ necessary_relays' \in BOOLEAN
    /\ relays_of_followers' \in BOOLEAN
    /\ current_relays' = <<>>
    /\ log' = <<>>
    /\ exported' = FALSE
    /\ finished' = FALSE
    /\ error' = "none"
    /\ relays' = {}
    /\ relay_count' = 0
    /\ conn_open' = FALSE
    /\ relay_added' = EmptyMap
    /\ add_calls' = 0
    /\ sent' = <<>>
    /\ UNCHANGED <<pc, eose_count, events, subscription_id, pool_events,
                   pool_eose, open_subs, result, rounds, delivered, emitted,
                   earlier, hist, drained, tokens>>
    /\ UNCHANGED <<cv_pc, relays_by_pub, df, new_df, minimum_necessary_relays,
                   cv_output, added>>
    /\ UNCHANGED <<resolveVars, lateVars>>

\* gui.py lines 92-122, click_run: the Run button, which takes clicks only
\* while it is enabled, is clicked; the controls are disabled, the message box
\* is cleared, a Client with a relay manager of its own is created from the
\* key and the check boxes, its signals are connected, and its thread is
\* started.
ClickRun ==
    /\ gui_enabled
    /\ clicks < MaxClicks
    /\ clicks' = clicks + 1
    /\ gui_enabled' = FALSE
    /\ handled' = FALSE
    /\ live' = (IF Running THEN live ELSE 0) + 1
    /\ run_pc' = "start"
    /\ config' \in Configs
    /\ npub_ok' \in BOOLEAN
    /\ activity_on_npub' \in BOOLEAN
    /\ necessary_relays' \in BOOLEAN
    /\ relays_of_followers' \in BOOLEAN
    /\ current_relays' = <<>>
    /\ log' = <<>>
    /\ exported' = FALSE
    /\ finished' = FALSE
    /\ error' = "none"
    /\ relays' = {}
    /\ relay_count' = 0
    /\ conn_open' = FALSE
    /\ relay_added' = EmptyMap
    /\ add_calls' = 0
    /\ sent' = <<>>
    /\ UNCHANGED <<pc, eose_count, events, subscription_id, pool_events,
                   pool_eose, open_subs, result, rounds, delivered, emitted,
                   earlier, hist, drained, tokens>>
    /\ UNCHANGED <<cv_pc, relays_by_pub, df, new_df, minimum_necessary_relays,
                   cv_output, added>>
    /\ UNCHANGED <<resolveVars, lateVars>>

\* gui.py lines 119 and 124-133, enable_gui: the slot connected to the
\* finished signal of the Client runs once the signal has been emitted, and
\* enables the controls.
EnableGui ==
    /\ finished
    /\ ~handled
    /\ handled' = TRUE
    /\ gui_enabled' = TRUE
    /\ UNCHANGED <<live, clicks>>
    /\ UNCHANGED <<queryVars, resolveVars, coverVars, runVars, lateVars>>

NextGui ==
    \/ ClickRun
    \/ NextRun
    \/ EnableGui

SpecGui == InitGui /\ [][NextGui]_vars

\* C22: once the run of the worker started by click_run has ended, with
\* success or with an error, the controls are enabled again or the slot that
\* enables them is about to run: the controls are never left disabled with no
\* worker running.
ControlsReenabled ==
    (run_pc \in {"done", "failed"} /\ ~gui_enabled) => ENABLED EnableGui

\* After a run that ended with success the controls are enabled again, or
\* the slot that enables them is about to run.
ReenabledOnSuccess ==
    (run_pc = "done" /\ ~gui_enabled) => ENABLED EnableGui

\* After a run that ended with an error the controls stay disabled: the
\* finished signal is not emitted, and nothing is left to happen.
DisabledAfterError ==
    run_pc = "failed" =>
        /\ ~gui_enabled
        /\ ~finished
        /\ ~ENABLED NextGui

\* C23: at most one Client thread is running at any time: from the start of
\* a worker until the slot of its finished signal has run the Run button is
\* disabled and click_run cannot start another worker.
SingleWorker ==
    /\ live <= 1
    /\ Running => (live = 1 /\ ~gui_enabled /\ ~ENABLED ClickRun)
    /\ (run_pc # "idle" /\ ~handled) => ~gui_enabled
    /\ gui_enabled => ~Running

\* The second worker, started after the first one signalled finished, is
\* at work on its queries with the Run button disabled.
SingleWorkerWitness ==
    /\ clicks = 2
    /\ Running
    /\ Len(sent) >= 1
    /\ live = 1
    /\ ~gui_enabled

====
